---- MODULE Spec2Model ----
(***************************************************************************)
(* The AI-request gateway of daneshyar: the KeyManager (credential pool,   *)
(* round-robin cursor, cooldown map), executeWithRotation, the live        *)
(* session's credential selection and the /api/proxy relay handler.        *)
(***************************************************************************)
EXTENDS Integers, Sequences, FiniteSets, TLC

\* ------------------------------------------------------------------ bounds

\* Of the numbered series VITE_GOOGLE_GENAI_TOKEN_1 .. _500 the environment
\* sets names up to this suffix.
MaxSuffix == 1

\* The clock is read at instants around multiples of the cooldown time.
MaxCycles == 1

\* At most this many selections of a key are followed.
MaxSel == 4

\* The calls of startVoiceSession followed.
MaxVoice == 2

\* Where the discovery order of the pool is examined, the environment sets
\* numbered names up to this suffix, with gaps.
WideSuffix == 3

\* The samples of an input buffer lie on a grid of this many steps per unit.
SampleSteps == 6

\* The length of an input buffer.
MaxFrames == 2

\* The audio chunks a live session delivers, the longest duration of one, the
\* span of the audio clock and the interruption signals followed.
MaxChunks == 3

MaxDuration == 2

MaxClock == 3

MaxInterrupts == 1

\* The length of the longest text to type and the mistakes counted.
MaxText == 2

MaxMistakes == 6

\* The lessons of the active track.
MaxLessons == 2

\* ------------------------------------------------------- program constants

COOLDOWN_TIME == 65000

MinRetries == 3

DefaultStatus == 500

\* The factor of `inputData[i] * 32768`.
PcmScale == 32768

\* The element width of an Int16Array.
Int16Bits == 16

\* The shortest countdown of TypingAssessment: Math.max(10, originalText.length).
MinTime == 10

\* ------------------------------------------------------------- environment

ApiKeyName == "API_KEY"

BaseName == "VITE_GOOGLE_GENAI_TOKEN"

\* `VITE_GOOGLE_GENAI_TOKEN_${i}` for i = 1, 2, ...
NumberedName ==
    <<"VITE_GOOGLE_GENAI_TOKEN_1", "VITE_GOOGLE_GENAI_TOKEN_2",
      "VITE_GOOGLE_GENAI_TOKEN_3", "VITE_GOOGLE_GENAI_TOKEN_4",
      "VITE_GOOGLE_GENAI_TOKEN_5", "VITE_GOOGLE_GENAI_TOKEN_6",
      "VITE_GOOGLE_GENAI_TOKEN_7", "VITE_GOOGLE_GENAI_TOKEN_8",
      "VITE_GOOGLE_GENAI_TOKEN_9", "VITE_GOOGLE_GENAI_TOKEN_10",
      "VITE_GOOGLE_GENAI_TOKEN_11", "VITE_GOOGLE_GENAI_TOKEN_12">>

\* The secrets of the numbered variables, by suffix.
NumberedSecret == <<"B", "C", "D", "E", "F", "G", "H", "I", "J", "L", "M", "N">>

EnvNames == {ApiKeyName, BaseName} \cup { NumberedName[n] : n \in 1..MaxSuffix }

\* The secret a variable holds when it is set ("" is an absent or empty value).
SecretOf(name) ==
    IF name = ApiKeyName THEN "K"
    ELSE IF name = BaseName THEN "A"
    ELSE NumberedSecret[CHOOSE n \in 1..Len(NumberedName) : NumberedName[n] = name]

\* The environments a process can start in.
Envs == { e \in [EnvNames -> {""} \cup { SecretOf(n) : n \in EnvNames }] :
            \A n \in EnvNames : e[n] \in {"", SecretOf(n)} }

\* The environments over the numbered names up to WideSuffix.
WideNames == {ApiKeyName, BaseName} \cup { NumberedName[k] : k \in 1..WideSuffix }

WideEnvs == { e \in [WideNames -> {""} \cup { SecretOf(n) : n \in WideNames }] :
                \A n \in WideNames : e[n] \in {"", SecretOf(n)} }

\* An environment with the base variable and every numbered variable set.
LargeEnv ==
    [n \in {ApiKeyName, BaseName} \cup { NumberedName[k] : k \in 1..Len(NumberedName) }
        |-> IF n = ApiKeyName THEN "" ELSE SecretOf(n)]

\* Instants at which Date.now() is read.
Instants == {1} \cup { k * COOLDOWN_TIME + j : k \in 1..MaxCycles, j \in 0..2 }

Callers == {1, 2}

\* Upstream failures seen by executeWithRotation, by the needles that the
\* lower-cased err.message contains: "rl" has '429', 'quota' or 'limit'; "inv"
\* has 'entity was not found' or 'invalid api key'; "rl+inv" has both; "other"
\* has none (or there is no message).
Errors == {"rl", "inv", "rl+inv", "other"}

Outcomes == {"ok"} \cup Errors

NoError == [msg |-> "", at |-> 0 - 1]

NoResult == [kind |-> "none", key |-> "", err |-> NoError]

VARIABLES
    env,           \* the merged environment read by initPool and by the relay
    procApiKey,    \* the value of the expression process.env.API_KEY
    keys,          \* KeyManager.keys
    currentIndex,  \* KeyManager.currentIndex
    cooldowns,     \* KeyManager.cooldowns: key -> excluded-until time
    now,           \* Date.now()
    pc,            \* per caller: position in executeWithRotation
    i,             \* per caller: the loop counter of executeWithRotation
    maxRetries,    \* per caller: the retry budget computed on entry
    key,           \* per caller: the credential of the attempt in flight
    lastError,     \* per caller: lastError
    result,        \* per caller: what executeWithRotation returned or threw
    log,           \* per caller: the attempts of the current dispatch
    selLog,        \* history of getNextHealthyKey: position and fallback flag
    liveKey,       \* the credential handed to the live session
    req,           \* the last request to the relay handler
    res,           \* the response of the relay handler to it
    upstream,      \* how the upstream call made for that request settled
    hub,           \* SenseiHub: its state, its refs, its timers and its sessions
    audio,         \* playback of a live session: clock, position, chunks
    pcm,           \* onaudioprocess: the input buffer and the Int16Array
    typing,        \* TypingAssessment: its state, its timer and its reports
    profile        \* the learner's mastery: stored, snapshot and achieved

vars == <<env, procApiKey, keys, currentIndex, cooldowns, now, pc, i, maxRetries,
          key, lastError, result, log, selLog, liveKey, req, res, upstream, hub,
          audio, pcm, typing, profile>>

componentVars == <<audio, pcm, typing, profile>>

\* ------------------------------------------------------------- KeyManager

\* env[keyName]: a variable the environment does not name is absent.
Lookup(e, name) == IF name \in DOMAIN e THEN e[name] ELSE ""

ScanNumberedUntilGap(e, n) ==
    LET gap == CHOOSE m \in n..(Len(NumberedName) + 1) :
                  /\ m = Len(NumberedName) + 1 \/ Lookup(e, NumberedName[m]) = ""
                  /\ \A q \in n..(m - 1) : Lookup(e, NumberedName[q]) # ""
    IN [j \in 1..(gap - n) |-> e[NumberedName[n + j - 1]]]

\* The scan of VITE_GOOGLE_GENAI_TOKEN_1.. in ascending order, skipping absent ones.
RECURSIVE ScanNumbered(_, _)
ScanNumbered(e, n) ==
    IF n > Len(NumberedName) THEN << >>
    ELSE (IF Lookup(e, NumberedName[n]) # "" THEN <<e[NumberedName[n]]>> ELSE << >>)
         \o ScanNumbered(e, n + 1)

\* The pool collected by initPool before the empty-pool fallback.
CollectPool(e) ==
    (IF e[ApiKeyName] # "" THEN <<e[ApiKeyName]>> ELSE << >>)
    \o (IF e[BaseName] # "" THEN <<e[BaseName]>> ELSE << >>)
    \o ScanNumbered(e, 1)

initPoolNoFallback(e, p) == CollectPool(e)

initPool(e, p) ==
    LET pool == CollectPool(e) IN
    IF Len(pool) > 0 THEN pool
    ELSE IF p # "" THEN <<p>> ELSE pool

getKeyCountAvailable ==
    Cardinality({ n \in 1..Len(keys) :
                    now > (IF keys[n] \in DOMAIN cooldowns THEN cooldowns[keys[n]] ELSE 0) })

\* getKeyCount(): this.keys.length
getKeyCount == Len(keys)

\* this.cooldowns.get(key) || 0 on the cooldown map cd
CooldownUntil(cd, k) == IF k \in DOMAIN cd THEN cd[k] ELSE 0

\* The availability test of getNextHealthyKey: now > cooldownUntil.
IsHealthy(cd, k, t) == t > CooldownUntil(cd, k)

NextIndexStuck(idx) == idx

\* this.currentIndex = (this.currentIndex + 1) % this.keys.length
NextIndex(idx) == (idx + 1) % Len(keys)

LastResortEmpty(idx) == [key |-> "", idx |-> idx, pos |-> 0, cold |-> TRUE]

LastResortRoundRobin(idx) ==
    [key |-> keys[idx + 1], idx |-> NextIndex(idx), pos |-> idx, cold |-> TRUE]

\* "If all are in cooldown, return the first one as last resort": the loop has
\* advanced the cursor keys.length times, back to idx, where it started.
LastResort(idx) == [key |-> keys[1], idx |-> idx, pos |-> 0, cold |-> TRUE]

\* The while loop of getNextHealthyKey, from cursor idx after `attempts` rounds.
RECURSIVE ScanPool(_, _, _, _)
ScanPool(cd, idx, attempts, t) ==
    IF attempts < Len(keys)
    THEN IF IsHealthy(cd, keys[idx + 1], t)
         THEN [key |-> keys[idx + 1], idx |-> NextIndex(idx),
               pos |-> idx, cold |-> FALSE]
         ELSE ScanPool(cd, NextIndex(idx), attempts + 1, t)
    ELSE LastResort(idx)

\* keys.length === 0: return process.env.API_KEY || ''
EmptyPoolKey(idx) == [key |-> procApiKey, idx |-> idx, pos |-> 0 - 1, cold |-> FALSE]

\* getNextHealthyKey at time t with cooldown map cd and cursor idx: the key
\* returned, the cursor it leaves, the pool position the key came from and
\* whether it was the last resort taken when every key is cooling down.
getNextHealthyKey(cd, idx, t) ==
    IF Len(keys) = 0 THEN EmptyPoolKey(idx) ELSE ScanPool(cd, idx, 0, t)

markAsLimitedKeep(cd, k, t) == cd

\* markAsLimited(key) at time t: the cooldown map it leaves.
markAsLimited(cd, k, t) ==
    [x \in (DOMAIN cd) \cup {k} |-> IF x = k THEN t + COOLDOWN_TIME ELSE cd[x]]

\* The selections followed: MaxSel of them, or one whole round of the pool.
SelCap == IF MaxSel > Len(keys) THEN MaxSel ELSE Len(keys)

\* The record of a selection s: the pool position the key came from and
\* whether it was the last resort.
Remember(s) == Append(selLog, [pos |-> s.pos, cold |-> s.cold])

\* ---------------------------------------------------- executeWithRotation

Max(a, b) == IF a > b THEN a ELSE b

HasRetrySig(e) == e \in {"rl", "inv", "rl+inv"}

\* errorMsg.includes('429') || errorMsg.includes('quota') || errorMsg.includes('limit')
HasRateLimitSig(e) == e \in {"rl", "rl+inv"}

HasInvalidSigOrOther(e) == e \in {"inv", "rl+inv", "other"}

\* errorMsg.includes('entity was not found') || errorMsg.includes('invalid api key')
HasInvalidSig(e) == e \in {"inv", "rl+inv"}

CaughtFirst(d, out) ==
    IF lastError[d] # [msg |-> "", at |-> 0 - 1] THEN lastError[d]
    ELSE [msg |-> out, at |-> i[d]]

\* lastError = err: the failure of the attempt of iteration i.
Caught(d, out) == [msg |-> out, at |-> i[d]]

\* The last entry of the attempt log gets the outcome of the attempt.
Settle(lg, out) == [lg EXCEPT ![Len(lg)].out = out]

\* throw: the dispatch of caller d ends with the error r.
Throw(d, r, cd, lg, le) ==
    /\ pc' = [pc EXCEPT ![d] = "failed"]
    /\ result' = [result EXCEPT ![d] = r]
    /\ cooldowns' = cd
    /\ log' = [log EXCEPT ![d] = lg]
    /\ lastError' = [lastError EXCEPT ![d] = le]
    /\ UNCHANGED <<currentIndex, selLog, key>>

\* The loop of executeWithRotation from its test at i = n up to the next await:
\* select a key, throw when there is none, else start the upstream operation.
Iterate(d, n, m, cd, lg, le) ==
    /\ i' = [i EXCEPT ![d] = n]
    /\ maxRetries' = [maxRetries EXCEPT ![d] = m]
    /\ IF n < m
       THEN LET s == getNextHealthyKey(cd, currentIndex, now) IN
            /\ currentIndex' = s.idx
            /\ selLog' = Remember(s)
            /\ cooldowns' = cd
            /\ lastError' = [lastError EXCEPT ![d] = le]
            /\ IF s.key = ""
               THEN /\ pc' = [pc EXCEPT ![d] = "failed"]
                    /\ result' = [result EXCEPT ![d] =
                                    [kind |-> "config", key |-> "", err |-> NoError]]
                    /\ log' = [log EXCEPT ![d] = lg]
                    /\ UNCHANGED key
               ELSE /\ pc' = [pc EXCEPT ![d] = "awaiting"]
                    /\ key' = [key EXCEPT ![d] = s.key]
                    /\ log' = [log EXCEPT ![d] =
                                 Append(lg, [key |-> s.key, out |-> "pending"])]
                    /\ result' = [result EXCEPT ![d] = NoResult]
       ELSE Throw(d, [kind |-> "error", key |-> "", err |-> le], cd, lg, le)

\* A caller enters executeWithRotation.
Dispatch(d) ==
    /\ pc[d] # "awaiting"
    /\ Len(selLog) < SelCap
    /\ Iterate(d, 0, Max(MinRetries, getKeyCount), cooldowns, << >>, NoError)
    /\ UNCHANGED <<env, procApiKey, keys, now, liveKey, req, res>>

\* The upstream operation of caller d settles with outcome out: return on
\* success; on failure classify the message, mark, and continue or throw.
Respond(d, out) ==
    /\ pc[d] = "awaiting"
    /\ (HasRateLimitSig(out) \/ HasInvalidSig(out)) /\ i[d] + 1 < maxRetries[d]
         => Len(selLog) < SelCap
    /\ LET lg == Settle(log[d], out)
           le == Caught(d, out)
       IN
       IF out = "ok"
       THEN /\ pc' = [pc EXCEPT ![d] = "done"]
            /\ result' = [result EXCEPT ![d] =
                            [kind |-> "ok", key |-> key[d], err |-> NoError]]
            /\ log' = [log EXCEPT ![d] = lg]
            /\ UNCHANGED <<currentIndex, cooldowns, selLog, key, lastError, i, maxRetries>>
       ELSE IF HasRateLimitSig(out)
       THEN Iterate(d, i[d] + 1, maxRetries[d], markAsLimited(cooldowns, key[d], now), lg, le)
       ELSE IF HasInvalidSig(out)
       THEN Iterate(d, i[d] + 1, maxRetries[d], cooldowns, lg, le)
       ELSE /\ Throw(d, [kind |-> "error", key |-> "", err |-> le], cooldowns, lg, le)
            /\ UNCHANGED <<i, maxRetries>>
    /\ UNCHANGED <<env, procApiKey, keys, now, liveKey, req, res>>

\* connectLiveTeacher: takes the next key and opens the live session with it.
connectLiveTeacher ==
    /\ Len(selLog) < SelCap
    /\ LET s == getNextHealthyKey(cooldowns, currentIndex, now) IN
       /\ currentIndex' = s.idx
       /\ selLog' = Remember(s)
       /\ liveKey' = s.key
    /\ UNCHANGED <<env, procApiKey, keys, cooldowns, now, pc, i, maxRetries, key,
                   lastError, result, log, req, res>>

\* Time passes: the next reading of Date.now() is a later instant.
Tick ==
    /\ \E t \in Instants : t > now /\ now' = t
    /\ UNCHANGED <<env, procApiKey, keys, currentIndex, cooldowns, pc, i, maxRetries,
                   key, lastError, result, log, selLog, liveKey, req, res>>

\* ------------------------------------------------------------ relay handler

\* keyPool of the handler: the base key, then the numbered keys 1..500.
RelayPool(e) ==
    (IF e[BaseName] # "" THEN <<e[BaseName]>> ELSE << >>) \o ScanNumbered(e, 1)

Methods == {"OPTIONS", "GET", "POST"}

Actions == {"generateContent", "embedContent"}

\* error.status of an upstream failure (0: the error carries no status).
UpStatuses == {0, 400, 429}

\* error.message of an upstream failure ("": the error carries no message).
UpMessages == {"", "rl", "inv", "other"}

UpOutcomes == {[ok |-> TRUE, status |-> 0, message |-> ""]}
              \cup [ok : {FALSE}, status : UpStatuses, message : UpMessages]

\* A response: the status, the fields of the JSON body, the pool member used
\* (-1 when none was selected) and the number of upstream calls made for it.
Response(status, error, hasRetry, retry, hasInfo, idx, calls) ==
    [status |-> status, error |-> error, hasRetry |-> hasRetry,
     retrySuggested |-> retry, hasInfo |-> hasInfo, idx |-> idx, calls |-> calls]

NoResponse == Response(0, "", FALSE, FALSE, FALSE, 0 - 1, 0)

NoRequest == [method |-> "", hasBody |-> FALSE, action |-> "", variant |-> ""]

\* No upstream call was made.
NoCall == [ok |-> FALSE, status |-> 0, message |-> "none"]

ErrorStatusByClass(up) ==
    IF up.message = "inv" THEN DefaultStatus
    ELSE IF up.status # 0 THEN up.status ELSE DefaultStatus

\* const status = error.status || 500
ErrorStatus(up) == IF up.status # 0 THEN up.status ELSE DefaultStatus

ErrorMessageOfKey(up) == "A"

\* const message = error.message || 'The AI Engine encountered an unexpected error.'
ErrorMessage(up) ==
    IF up.message # "" THEN up.message
    ELSE "The AI Engine encountered an unexpected error."

IsSupportedAny(action) == TRUE

\* if (action === 'generateContent')
IsSupported(action) == action = "generateContent"

RetrySuggestedNever(status) == FALSE

\* retrySuggested: status === 429
RetrySuggested(status) == status = 429

\* The response of handler(req, res) to a request with this method, with or
\* without a body, asking for this action, when Math.random() picks pool member
\* rnd and the upstream call, if one is made, settles with up.
handlerResponseIn(e, method, hasBody, action, rnd, up) ==
    LET keyPool == RelayPool(e) IN
    IF method = "OPTIONS" THEN Response(200, "", FALSE, FALSE, FALSE, 0 - 1, 0)
    ELSE IF method # "POST"
    THEN Response(405, "Method Not Allowed", FALSE, FALSE, FALSE, 0 - 1, 0)
    ELSE IF Len(keyPool) = 0
    THEN Response(500, "System Error: No valid API keys found.", FALSE, FALSE, FALSE, 0 - 1, 0)
    ELSE IF ~hasBody
    THEN Response(500, "TypeError", FALSE, FALSE, FALSE, rnd, 0)
    ELSE IF IsSupported(action)
    THEN IF up.ok
         THEN Response(200, "", FALSE, FALSE, FALSE, rnd, 1)
         ELSE Response(ErrorStatus(up), ErrorMessage(up), TRUE,
                       RetrySuggested(ErrorStatus(up)), TRUE, rnd, 1)
    ELSE Response(400, "Action is not supported by the Secure Proxy Bridge.",
                  FALSE, FALSE, FALSE, rnd, 0)

\* The handler reads process.env.
handlerResponse(method, hasBody, action, rnd, up) ==
    handlerResponseIn(env, method, hasBody, action, rnd, up)

\* One request to /api/proxy, from its arrival to its response.
handler ==
    /\ \E method \in Methods, hasBody \in BOOLEAN, action \in Actions,
          up \in UpOutcomes, rnd \in 0..(Max(Len(RelayPool(env)), 1) - 1) :
          /\ req' = [method |-> method, hasBody |-> hasBody, action |-> action,
                      variant |-> "pool"]
          /\ res' = handlerResponse(method, hasBody, action, rnd, up)
          /\ upstream' = IF res'.calls > 0 THEN up ELSE NoCall
    /\ UNCHANGED <<env, procApiKey, keys, currentIndex, cooldowns, now, pc, i,
                   maxRetries, key, lastError, result, log, selLog, liveKey>>

\* The single-key variant of the relay.

\* const apiKey = process.env.API_KEY || process.env.VITE_GOOGLE_GENAI_TOKEN
SingleKey(e) ==
    IF Lookup(e, ApiKeyName) # "" THEN e[ApiKeyName] ELSE Lookup(e, BaseName)

\* const message = error.message || 'An error occurred during API call'
SingleKeyErrorMessage(up) ==
    IF up.message # "" THEN up.message ELSE "An error occurred during API call"

\* The response of the single-key handler: the body is read before the key
\* is looked up, and every failure body is { error } alone.
handlerSingleKeyResponseIn(e, method, hasBody, action, up) ==
    IF method = "OPTIONS" THEN Response(200, "", FALSE, FALSE, FALSE, 0 - 1, 0)
    ELSE IF method # "POST"
    THEN Response(405, "Method Not Allowed", FALSE, FALSE, FALSE, 0 - 1, 0)
    ELSE IF ~hasBody
    THEN Response(500, "TypeError", FALSE, FALSE, FALSE, 0 - 1, 0)
    ELSE IF SingleKey(e) = ""
    THEN Response(500, "Server configuration error: API Key missing.",
                  FALSE, FALSE, FALSE, 0 - 1, 0)
    ELSE IF IsSupported(action)
    THEN IF up.ok
         THEN Response(200, "", FALSE, FALSE, FALSE, 0 - 1, 1)
         ELSE Response(ErrorStatus(up), SingleKeyErrorMessage(up),
                       FALSE, FALSE, FALSE, 0 - 1, 1)
    ELSE Response(400, "Unsupported action", FALSE, FALSE, FALSE, 0 - 1, 0)

\* One request to the single-key handler, from its arrival to its response.
handlerSingleKey ==
    /\ \E method \in Methods, hasBody \in BOOLEAN, action \in Actions,
          up \in UpOutcomes :
          /\ req' = [method |-> method, hasBody |-> hasBody, action |-> action,
                      variant |-> "single"]
          /\ res' = handlerSingleKeyResponseIn(env, method, hasBody, action, up)
          /\ upstream' = IF res'.calls > 0 THEN up ELSE NoCall
    /\ UNCHANGED <<env, procApiKey, keys, currentIndex, cooldowns, now, pc, i,
                   maxRetries, key, lastError, result, log, selLog, liveKey>>

\* ---------------------------------------------------------------- SenseiHub


\* A call of startVoiceSession that has not been made.
NoRun == [at |-> "none", seenConnecting |-> FALSE, seenActive |-> FALSE,
          inputCtx |-> "none", outputCtx |-> "none", stream |-> "none",
          socket |-> "none"]

\* The component after its first render with isOpen = false. A ref is 0 (null)
\* or the number of the call of startVoiceSession that made its object; run[s]
\* holds, for call s, where the async function stands (at), the values of
\* isVoiceConnecting and isVoiceActive its closures captured, and the state of
\* the audio contexts, the microphone stream and the live connection it made.
HubInit ==
    [isOpen |-> FALSE, mode |-> "CHAT", isVoiceActive |-> FALSE,
     isVoiceConnecting |-> FALSE, liveError |-> FALSE,
     sessionRef |-> 0, inputAudioContextRef |-> 0, outputAudioContextRef |-> 0,
     started |-> 0, endTimers |-> 0, modeTimers |-> 0,
     run |-> [s \in 1..MaxVoice |-> NoRun]]

\* stopVoiceSession: closes and clears what the three refs hold, then resets
\* the two flags. The microphone stream is held by no ref and is left alone.
stopVoiceSession(h) ==
    LET r1 == IF h.sessionRef # 0
              THEN [h.run EXCEPT ![h.sessionRef].socket =
                                    IF @ = "open" THEN "closing" ELSE @]
              ELSE h.run
        r2 == IF h.inputAudioContextRef # 0
              THEN [r1 EXCEPT ![h.inputAudioContextRef].inputCtx = "closed"]
              ELSE r1
        r3 == IF h.outputAudioContextRef # 0
              THEN [r2 EXCEPT ![h.outputAudioContextRef].outputCtx = "closed"]
              ELSE r2
    IN [h EXCEPT !.run = r3, !.sessionRef = 0, !.inputAudioContextRef = 0,
                 !.outputAudioContextRef = 0, !.isVoiceActive = FALSE,
                 !.isVoiceConnecting = FALSE]

\* startVoiceSession up to its first await: the flags, the two audio contexts
\* and their refs; the closures of call s capture the state of this render.
startVoiceSession(h) ==
    LET s == h.started + 1 IN
    [h EXCEPT !.started = s, !.isVoiceConnecting = TRUE, !.liveError = FALSE,
              !.inputAudioContextRef = s, !.outputAudioContextRef = s,
              !.run = [@ EXCEPT ![s] =
                         [at |-> "mic", seenConnecting |-> h.isVoiceConnecting,
                          seenActive |-> h.isVoiceActive, inputCtx |-> "open",
                          outputCtx |-> "open", stream |-> "none",
                          socket |-> "none"]]]

\* useEffect(..., [mode, isOpen]), run after a render in which one of them changed.
effect(h) ==
    IF h.isOpen
    THEN IF h.mode = "VOICE" /\ ~h.isVoiceActive THEN startVoiceSession(h) ELSE h
    ELSE stopVoiceSession(h)

setMode(h, m) == IF h.mode = m THEN h ELSE effect([h EXCEPT !.mode = m])

\* The parent changes the isOpen prop.
setIsOpen(h, o) == IF h.isOpen = o THEN h ELSE effect([h EXCEPT !.isOpen = o])

handleEndVoiceAction(h) == setMode(stopVoiceSession(h), "CHAT")

\* The catch block of startVoiceSession.
catch(h, s) ==
    [h EXCEPT !.run[s].at = "done", !.isVoiceConnecting = FALSE,
              !.liveError = TRUE, !.modeTimers = @ + 1]

\* callbacks.onopen of call s.
onopen(h, s) ==
    [h EXCEPT !.run[s].socket = "open", !.isVoiceConnecting = FALSE,
              !.isVoiceActive = TRUE]

\* callbacks.onclose of call s: it reads the isVoiceConnecting of its closure.
onclose(h, s) ==
    LET h1 == [h EXCEPT !.run[s].socket = "closed"] IN
    IF h.run[s].seenConnecting
    THEN [h1 EXCEPT !.liveError = TRUE, !.endTimers = @ + 1]
    ELSE handleEndVoiceAction(h1)

\* callbacks.onerror of call s.
onerror(h, s) ==
    [h EXCEPT !.run[s].socket = "errored", !.liveError = TRUE, !.endTimers = @ + 1]

\* The callback of the 12 s timer of call s: it reads the flags of its closure.
safetyTimeout(h, s) ==
    LET h1 == [h EXCEPT !.run[s].at = "done"] IN
    IF h.run[s].seenConnecting /\ ~h.run[s].seenActive
    THEN [h1 EXCEPT !.liveError = TRUE, !.endTimers = @ + 1]
    ELSE h1

gatewayVars == <<env, procApiKey, keys, currentIndex, cooldowns, now, pc, i,
                 maxRetries, key, lastError, result, log, selLog, liveKey, req,
                 res, upstream>>

\* The component moves to state h; the browser module is not involved.
Becomes(h) ==
    /\ h.started <= MaxVoice
    /\ hub' = h
    /\ UNCHANGED <<gatewayVars, componentVars>>

OpenHub == ~hub.isOpen /\ Becomes(setIsOpen(hub, TRUE))

\* The close button: onClose.
CloseHub == hub.isOpen /\ Becomes(setIsOpen(hub, FALSE))

\* The two mode tabs.
SelectVoice == hub.isOpen /\ hub.mode = "CHAT" /\ Becomes(setMode(hub, "VOICE"))

SelectChat == hub.isOpen /\ hub.mode = "VOICE" /\ Becomes(setMode(hub, "CHAT"))

\* The disconnect button of the voice view.
EndVoice == hub.isOpen /\ hub.mode = "VOICE" /\ Becomes(handleEndVoiceAction(hub))

\* getUserMedia resolves: call s goes on to connectLiveTeacher and awaits it.
MicGranted(s) ==
    /\ hub.run[s].at = "mic"
    /\ hub' = [hub EXCEPT !.run[s].at = "connect", !.run[s].stream = "open",
                          !.run[s].socket = "connecting"]
    /\ connectLiveTeacher
    /\ UNCHANGED <<upstream, componentVars>>

\* getUserMedia rejects.
MicDenied(s) == hub.run[s].at = "mic" /\ Becomes(catch(hub, s))

\* The promise of connectLiveTeacher rejects.
ConnectRejected(s) ==
    /\ hub.run[s].at = "connect"
    /\ hub.run[s].socket = "connecting"
    /\ Becomes(catch([hub EXCEPT !.run[s].socket = "closed"], s))

\* The connection never completes: no callback and no settlement follow.
ConnectHangs(s) ==
    /\ hub.run[s].socket = "connecting"
    /\ Becomes([hub EXCEPT !.run[s].socket = "hung"])

SocketOpens(s) == hub.run[s].socket = "connecting" /\ Becomes(onopen(hub, s))

SocketFails(s) ==
    /\ hub.run[s].socket \in {"connecting", "open"}
    /\ Becomes(onerror(hub, s))

SocketCloses(s) ==
    /\ hub.run[s].socket \in {"connecting", "open", "errored", "closing"}
    /\ Becomes(onclose(hub, s))

\* sessionRef.current = await sessionPromise; then the 12 s timer is set.
ConnectResolved(s) ==
    /\ hub.run[s].at = "connect"
    /\ hub.run[s].socket = "open"
    /\ Becomes([hub EXCEPT !.run[s].at = "armed", !.sessionRef = s])

SafetyTimerFires(s) == hub.run[s].at = "armed" /\ Becomes(safetyTimeout(hub, s))

\* setTimeout(() => handleEndVoiceAction(), ...)
EndTimerFires ==
    /\ hub.endTimers > 0
    /\ Becomes(handleEndVoiceAction([hub EXCEPT !.endTimers = @ - 1]))

\* setTimeout(() => setMode(HubMode.CHAT), 4000)
ModeTimerFires ==
    /\ hub.modeTimers > 0
    /\ Becomes(setMode([hub EXCEPT !.modeTimers = @ - 1], "CHAT"))

\* ---------------------------------------------------------------- playback

\* A chunk that has not been received. state: "none", "decoding" (its handler
\* is suspended at `await decodeAudioData`), "started" (source.start was
\* called) or "stopped" (source.stop was called). turn is the number of
\* interruption signals handled when the chunk was received; when is the
\* argument of source.start; the source sounds from `from` until `till`.
NoChunk == [state |-> "none", duration |-> 0, turn |-> 0, when |-> 0,
            from |-> 0, till |-> 0]

\* No live session has been opened by a component.
NoAudio ==
    [component |-> "none", currentTime |-> 0, nextStartTime |-> 0,
     received |-> 0, interrupts |-> 0, sources |-> {},
     chunk |-> [c \in 1..MaxChunks |-> NoChunk]]

Components == {"hub", "modal"}

\* onmessage with audio data, up to `await decodeAudioData`: chunk c of
\* duration d is received.
onmessageReceive(a, c, d) ==
    [a EXCEPT !.received = c,
              !.nextStartTime = Max(a.nextStartTime, a.currentTime),
              !.chunk[c] = [NoChunk EXCEPT !.state = "decoding", !.duration = d,
                                           !.turn = a.interrupts]]

\* source.start(when): a time that has passed means now.
StartsAt(when, currentTime) == Max(when, currentTime)

\* onmessage with audio data, after the await: the source of chunk c is
\* started at nextStartTimeRef.current, which then moves on by its duration.
onmessageResume(a, c) ==
    LET from == StartsAt(a.nextStartTime, a.currentTime) IN
    [a EXCEPT !.chunk[c].state = "started",
              !.chunk[c].when = a.nextStartTime,
              !.chunk[c].from = from,
              !.chunk[c].till = from + a.chunk[c].duration,
              !.nextStartTime = a.nextStartTime + a.chunk[c].duration,
              !.sources = a.sources \cup {c}]

\* source.stop() now: what has not sounded yet never does.
stop(ch, currentTime) ==
    [ch EXCEPT !.state = "stopped",
               !.till = Max(ch.from, IF ch.till < currentTime THEN ch.till
                                     ELSE currentTime)]

\* onmessage with serverContent.interrupted. LiveTeacherModal stops and
\* forgets the sources of sourcesRef and resets nextStartTimeRef; the
\* onmessage of SenseiHub has no branch for the signal.
onmessageInterrupted(a) ==
    IF a.component = "modal"
    THEN [a EXCEPT !.interrupts = @ + 1, !.nextStartTime = 0, !.sources = {},
                   !.chunk = [c \in 1..MaxChunks |->
                                IF c \in a.sources THEN stop(a.chunk[c], a.currentTime)
                                ELSE a.chunk[c]]]
    ELSE [a EXCEPT !.interrupts = @ + 1]

\* source.onended: sourcesRef.current.delete(source).
onended(a, c) == [a EXCEPT !.sources = a.sources \ {c}]

\* The session's player moves to a; nothing else is involved.
Plays(a) ==
    /\ audio' = a
    /\ UNCHANGED <<gatewayVars, hub, pcm, typing, profile>>

ChunkArrives ==
    /\ audio.received < MaxChunks
    /\ \E d \in 1..MaxDuration :
          Plays(onmessageReceive(audio, audio.received + 1, d))

\* The handlers suspended at the await resume in the order they suspended.
ChunkDecoded ==
    \E c \in 1..MaxChunks :
        /\ audio.chunk[c].state = "decoding"
        /\ \A b \in 1..(c - 1) : audio.chunk[b].state # "decoding"
        /\ Plays(onmessageResume(audio, c))

InterruptionArrives ==
    /\ audio.interrupts < MaxInterrupts
    /\ Plays(onmessageInterrupted(audio))

SourceEnds ==
    \E c \in audio.sources :
        /\ audio.chunk[c].till <= audio.currentTime
        /\ Plays(onended(audio, c))

\* The audio clock of the output context advances; it does so on its own
\* thread, also while a chunk is being decoded.
ClockAdvances ==
    /\ audio.currentTime < MaxClock
    /\ Plays([audio EXCEPT !.currentTime = @ + 1])

\* -------------------------------------------------------- TypingAssessment

Alphabet == {"a", "b"}

\* The texts of at most n characters.
Texts(n) == UNION { [1..k -> Alphabet] : k \in 0..n }

NoReport == [called |-> FALSE, typed |-> << >>, mistakes |-> 0, score |-> 0]

\* The component after its first render and effects for the text o. timerOn:
\* the interval of timerIntervalRef is running; report: the arguments of the
\* last call of onComplete; lastOp: the handler that ran last.
Mounted(o) ==
    [originalText |-> o, typedText |-> << >>, mistakeCount |-> 0,
     timeLeft |-> Max(MinTime, Len(o)), isStarted |-> FALSE, isFailed |-> FALSE,
     score |-> 100, startTimeRef |-> FALSE, timerOn |-> FALSE,
     report |-> NoReport, lastOp |-> "mount"]

\* No assessment is mounted.
NoTyping == [Mounted(<< >>) EXCEPT !.timeLeft = 0, !.lastOp = "none"]

calculateScoreLenient(mistakes) ==
    IF mistakes = 0 THEN 100 ELSE IF mistakes <= 2 THEN 90 ELSE 80

calculateScore(mistakes) ==
    IF mistakes = 0 THEN 100
    ELSE IF mistakes <= 2 THEN 90
    ELSE IF mistakes <= 5 THEN 80
    ELSE 0

\* The effect on [isStarted, isFailed, timeLeft]: whether it sets an interval.
TimerCondition(t) == t.isStarted /\ ~t.isFailed /\ t.timeLeft > 0

\* newMistakes of handleTyping: only a value longer than the typed text is
\* compared, and only in its last character.
NewMistakes(t, value) ==
    IF /\ Len(value) > Len(t.typedText)
       /\ value[Len(value)] # t.originalText[Len(value)]
    THEN t.mistakeCount + 1
    ELSE t.mistakeCount

\* handleTyping for the value of the textarea, and the render that follows.
handleTyping(t, value) ==
    IF t.isFailed \/ Len(value) > Len(t.originalText) THEN t
    ELSE LET starts == ~t.isStarted /\ Len(value) > 0
             t1 == [t EXCEPT !.isStarted = @ \/ starts,
                             !.startTimeRef = @ \/ starts,
                             !.mistakeCount = NewMistakes(t, value),
                             !.typedText = value,
                             !.score = calculateScore(NewMistakes(t, value))]
         IN [t1 EXCEPT !.timerOn = IF starts THEN TimerCondition(t1)
                                   ELSE @ /\ value # t.originalText]

\* The callback of the interval, once a second, and the render that follows.
tick(t) ==
    LET t1 == IF t.timeLeft <= 1
              THEN [t EXCEPT !.timeLeft = 0, !.isFailed = TRUE]
              ELSE [t EXCEPT !.timeLeft = @ - 1]
    IN [t1 EXCEPT !.timerOn = TimerCondition(t1)]

isComplete(t) == t.typedText = t.originalText

canPass(t) == isComplete(t) /\ ~t.isFailed /\ t.score >= 80

\* handleFinish: onComplete(typedText, {mistakes: mistakeCount, score, ...}).
handleFinish(t) ==
    IF canPass(t) /\ t.startTimeRef
    THEN [t EXCEPT !.report = [called |-> TRUE, typed |-> t.typedText,
                               mistakes |-> t.mistakeCount, score |-> t.score]]
    ELSE t

handleRetry(t) ==
    [t EXCEPT !.typedText = << >>, !.mistakeCount = 0, !.isStarted = FALSE,
              !.isFailed = FALSE, !.score = 100,
              !.timeLeft = Max(MinTime, Len(t.originalText)),
              !.startTimeRef = FALSE, !.timerOn = FALSE]

\* The assessment moves to t by the handler op; nothing else is involved.
Types(t, op) ==
    /\ t.mistakeCount <= MaxMistakes
    /\ typing' = [t EXCEPT !.lastOp = op]
    /\ UNCHANGED <<gatewayVars, hub, audio, pcm, profile>>

IsMounted == typing.lastOp # "none"

\* onChange of the textarea: typing, deleting, pasting or replacing.
Change ==
    /\ IsMounted
    /\ \E value \in Texts(MaxText) : Types(handleTyping(typing, value), "typing")

Second == typing.timerOn /\ Types(tick(typing), "tick")

Finish == IsMounted /\ Types(handleFinish(typing), "finish")

Retry == IsMounted /\ Types(handleRetry(typing), "retry")

\* -------------------------------------------------------- StudentWorkspace

Lessons == 1..MaxLessons

\* The scores TypingAssessment reports.
Scores == {80, 90, 100}

\* No workspace is mounted. stored: lesson_mastery of the active track in the
\* profiles table; user: the same in the `user` prop, the snapshot the
\* workspace renders with; best: the highest score reported per lesson.
\* A lesson without an entry reads as 0.
NoProfile ==
    [mounted |-> FALSE, stored |-> [l \in Lessons |-> 0],
     user |-> [l \in Lessons |-> 0], best |-> [l \in Lessons |-> 0]]

\* handleLessonMastered for the selected lesson l and stats.score.
handleLessonMastered(p, l, score) ==
    LET prevBest == p.user[l]
        updatedMastery == [p.user EXCEPT ![l] = score]
        p1 == [p EXCEPT !.best[l] = Max(@, score)]
    IN IF score > prevBest THEN [p1 EXCEPT !.stored = updatedMastery] ELSE p1

\* fetchUserProfile, started by onProgressUpdate, delivers the stored profile.
fetchUserProfile(p) == [p EXCEPT !.user = p.stored]

LessonCompleted ==
    /\ profile.mounted
    /\ \E l \in Lessons, score \in Scores :
          profile' = handleLessonMastered(profile, l, score)
    /\ UNCHANGED <<gatewayVars, hub, audio, pcm, typing>>

ProfileRefreshed ==
    /\ profile.mounted
    /\ profile.user # profile.stored
    /\ profile' = fetchUserProfile(profile)
    /\ UNCHANGED <<gatewayVars, hub, audio, pcm, typing>>

\* ------------------------------------------------------ microphone capture

\* A sample of the input buffer is the fraction n / SampleSteps, for n in
\* -SampleSteps..SampleSteps: the range [-1, 1] with both ends.
Samples == (0 - SampleSteps)..SampleSteps

\* The integer part of a / b, towards zero (b > 0).
Trunc(a, b) == IF a >= 0 THEN a \div b ELSE 0 - ((0 - a) \div b)

\* The store of a number into an Int16Array: its integer part modulo
\* 2^16, read as a two's complement value.
ToInt16(v) ==
    LET m == v % (2 ^ Int16Bits) IN
    IF m >= 2 ^ (Int16Bits - 1) THEN m - 2 ^ Int16Bits ELSE m

\* int16[i] = inputData[i] * 32768, for the sample n / SampleSteps.
floatToInt16(n) == ToInt16(Trunc(n * PcmScale, SampleSteps))

\* No buffer has been captured.
NoPcm == [inputData |-> << >>, int16 |-> << >>]

\* scriptProcessor.onaudioprocess: the loop over the input buffer.
onaudioprocess ==
    /\ pcm.inputData # << >>
    /\ pcm.int16 = << >>
    /\ pcm' = [pcm EXCEPT !.int16 = [k \in 1..Len(pcm.inputData) |->
                                       floatToInt16(pcm.inputData[k])]]
    /\ UNCHANGED <<gatewayVars, hub, audio, typing, profile>>

\* ----------------------------------------------------------- specification

\* No component of the student workspace is mounted.
Unmounted ==
    /\ audio = NoAudio
    /\ pcm = NoPcm
    /\ typing = NoTyping
    /\ profile = NoProfile

\* After module load: `const keyManager = new KeyManager()` has run initPool
\* and no call has been made.
Fresh ==
    /\ keys = initPool(env, procApiKey)
    /\ currentIndex = 0
    /\ cooldowns = << >>
    /\ now = 1
    /\ pc = [d \in Callers |-> "idle"]
    /\ i = [d \in Callers |-> 0]
    /\ maxRetries = [d \in Callers |-> 0]
    /\ key = [d \in Callers |-> ""]
    /\ lastError = [d \in Callers |-> NoError]
    /\ result = [d \in Callers |-> NoResult]
    /\ log = [d \in Callers |-> << >>]
    /\ selLog = << >>
    /\ liveKey = ""
    /\ req = NoRequest
    /\ res = NoResponse
    /\ upstream = NoCall
    /\ hub = HubInit

Init ==
    /\ env \in Envs
    /\ procApiKey \in {"", "K"}
    /\ env[ApiKeyName] # "" => procApiKey = env[ApiKeyName]
    /\ Fresh
    /\ Unmounted

\* The browser module (KeyManager, executeWithRotation) and the relay run in
\* different processes and share no state: a behaviour follows one of them.
GatewayIdle ==
    /\ selLog = << >>
    /\ now = 1
    /\ \A d \in Callers : pc[d] = "idle"

\* One caller at a time uses the gateway.
Next ==
    \/ req = NoRequest /\ (\E d \in {1} : Dispatch(d)) /\ UNCHANGED <<upstream, hub, componentVars>>
    \/ req = NoRequest /\ (\E d \in {1}, out \in Outcomes : Respond(d, out))
                       /\ UNCHANGED <<upstream, hub, componentVars>>
    \/ req = NoRequest /\ (\A d \in Callers : pc[d] # "awaiting") /\ connectLiveTeacher
                       /\ UNCHANGED <<upstream, hub, componentVars>>
    \/ req = NoRequest /\ Tick /\ UNCHANGED <<upstream, hub, componentVars>>
    \/ GatewayIdle /\ handler /\ UNCHANGED <<hub, componentVars>>
    \/ GatewayIdle /\ handlerSingleKey /\ UNCHANGED <<hub, componentVars>>

Spec == Init /\ [][Next]_vars

\* A deployment with thirteen keys, whose upstream either answers or reports
\* quota exhaustion, followed at one instant.
InitLarge ==
    /\ env = LargeEnv
    /\ procApiKey = ""
    /\ Fresh
    /\ Unmounted

NextLarge ==
    \/ Dispatch(1) /\ UNCHANGED <<upstream, hub, componentVars>>
    \/ (\E out \in {"ok", "rl"} : Respond(1, out)) /\ UNCHANGED <<upstream, hub, componentVars>>

SpecLarge == InitLarge /\ [][NextLarge]_vars

\* Module load in an environment with gaps in the numbered series, followed
\* by selections that walk the pool and by requests to the relay.
InitPool ==
    /\ env \in WideEnvs
    /\ procApiKey \in {"", "K"}
    /\ env[ApiKeyName] # "" => procApiKey = env[ApiKeyName]
    /\ Fresh
    /\ Unmounted

NextPool ==
    \/ req = NoRequest /\ connectLiveTeacher /\ UNCHANGED <<upstream, hub, componentVars>>
    \/ GatewayIdle /\ handler /\ UNCHANGED <<hub, componentVars>>

SpecPool == InitPool /\ [][NextPool]_vars

\* A live session is open and the microphone delivers one input buffer.
InitPcm ==
    /\ env = LargeEnv
    /\ procApiKey = ""
    /\ Fresh
    /\ audio = NoAudio
    /\ typing = NoTyping
    /\ profile = NoProfile
    /\ pcm \in [inputData : [1..MaxFrames -> Samples], int16 : {<< >>}]

NextPcm == onaudioprocess

SpecPcm == InitPcm /\ [][NextPcm]_vars

\* A live session of SenseiHub or of LiveTeacherModal is open and plays what
\* the upstream sends.
InitAudio ==
    /\ env = LargeEnv
    /\ procApiKey = ""
    /\ Fresh
    /\ audio \in { [NoAudio EXCEPT !.component = c] : c \in Components }
    /\ pcm = NoPcm
    /\ typing = NoTyping
    /\ profile = NoProfile

NextAudio ==
    \/ ChunkArrives
    \/ ChunkDecoded
    \/ InterruptionArrives
    \/ SourceEnds
    \/ ClockAdvances

SpecAudio == InitAudio /\ [][NextAudio]_vars

\* A TypingAssessment is mounted with a text to type.
InitTyping ==
    /\ env = LargeEnv
    /\ procApiKey = ""
    /\ Fresh
    /\ audio = NoAudio
    /\ pcm = NoPcm
    /\ typing \in { Mounted(o) : o \in Texts(MaxText) \ {<< >>} }
    /\ profile = NoProfile

NextTyping == Change \/ Second \/ Finish \/ Retry

SpecTyping == InitTyping /\ [][NextTyping]_vars

\* The workspace of a learner who has mastered nothing yet.
InitProfile ==
    /\ env = LargeEnv
    /\ procApiKey = ""
    /\ Fresh
    /\ audio = NoAudio
    /\ pcm = NoPcm
    /\ typing = NoTyping
    /\ profile = [NoProfile EXCEPT !.mounted = TRUE]

NextProfile == LessonCompleted \/ ProfileRefreshed

SpecProfile == InitProfile /\ [][NextProfile]_vars

\* Two callers inside executeWithRotation at once: their awaits interleave on
\* the one KeyManager of the module.
NextConcurrent ==
    \/ (\E d \in Callers : Dispatch(d)) /\ UNCHANGED <<upstream, hub, componentVars>>
    \/ (\E d \in Callers, out \in Outcomes : Respond(d, out)) /\ UNCHANGED <<upstream, hub, componentVars>>
    \/ Tick /\ UNCHANGED <<upstream, hub, componentVars>>

SpecConcurrent == Init /\ [][NextConcurrent]_vars

\* The same two callers in a deployment with one credential at most: only
\* VITE_GOOGLE_GENAI_TOKEN may be set, so the callers share it.
InitSingleKey ==
    /\ Init
    /\ procApiKey = ""
    /\ \A n \in EnvNames \ {BaseName} : env[n] = ""

SpecSingleKey == InitSingleKey /\ [][NextConcurrent]_vars

\* The hub of a deployment with every variable set.
InitVoice == Init /\ \A n \in EnvNames : env[n] # ""

\* What the learner and the parent component do.
VoiceUser == OpenHub \/ CloseHub \/ SelectVoice \/ SelectChat \/ EndVoice

\* What the browser, the network and the event loop do.
VoiceSystem ==
    \/ \E s \in 1..MaxVoice : MicGranted(s)
    \/ \E s \in 1..MaxVoice : MicDenied(s)
    \/ \E s \in 1..MaxVoice : ConnectRejected(s)
    \/ \E s \in 1..MaxVoice : ConnectHangs(s)
    \/ \E s \in 1..MaxVoice : SocketOpens(s)
    \/ \E s \in 1..MaxVoice : SocketFails(s)
    \/ \E s \in 1..MaxVoice : SocketCloses(s)
    \/ \E s \in 1..MaxVoice : ConnectResolved(s)
    \/ \E s \in 1..MaxVoice : SafetyTimerFires(s)
    \/ EndTimerFires
    \/ ModeTimerFires

NextVoice == VoiceUser \/ VoiceSystem

\* The event loop runs every callback that is due; the learner may stay idle.
\* MaxVoice limits only the steps that call startVoiceSession, which are steps
\* of the learner: no callback or timer is ever held back by it.
SpecVoice == InitVoice /\ [][NextVoice]_vars /\ WF_vars(VoiceSystem)

\* ------------------------------------------------------------- properties

NoKeysError == "System Error: No valid API keys found."

NoApiKeyError == "Server configuration error: API Key missing."

\* The handler that served the request found a credential to use.
HasCredential ==
    IF req.variant = "pool" THEN Len(RelayPool(env)) > 0 ELSE SingleKey(env) # ""

\* The attempts of caller d's dispatch are all the selections made so far: the
\* dispatch started on a freshly initialized KeyManager.
FreshDispatch(d) == Len(selLog) = Len(log[d]) /\ Len(log[d]) > 0

Finished(d) == pc[d] \in {"done", "failed"}

Last(q) == q[Len(q)]

Min(a, b) == IF a < b THEN a ELSE b

\* C1: on a fresh gateway with a pool of three credentials, a dispatch whose
\* attempts on the first two are rate-limited and whose attempt on the third
\* succeeds returns the third credential's result after exactly 3 attempts,
\* and on return exactly the first two credentials have cooldown entries.
C1_RotatesToThird ==
    \A d \in Callers :
        ( /\ Len(keys) = 3
          /\ Finished(d)
          /\ FreshDispatch(d)
          /\ \A n \in 1..Len(log[d]) :
                /\ log[d][n].key \in {keys[1], keys[2]} => log[d][n].out = "rl"
                /\ log[d][n].key = keys[3] => log[d][n].out = "ok" )
        => /\ result[d] = [kind |-> "ok", key |-> keys[3], err |-> NoError]
           /\ Len(log[d]) = 3
           /\ log[d][1].key = keys[1]
           /\ log[d][2].key = keys[2]
           /\ DOMAIN cooldowns = {keys[1], keys[2]}

C1_Witness ==
    /\ Len(keys) = 3
    /\ pc[1] = "done"
    /\ FreshDispatch(1)
    /\ Len(log[1]) = 3
    /\ log[1][1].out = "rl" /\ log[1][2].out = "rl" /\ log[1][3].out = "ok"
    /\ result[1].key = keys[3]

\* C2: with an empty pool, executeWithRotation throws the configuration error
\* in its first iteration without any upstream call, and a POST to a relay
\* handler that finds no credential is answered 500 with its missing-key
\* error, without any upstream call.
C2_EmptyPoolFailsFast ==
    /\ \A d \in Callers :
          Len(keys) = 0 /\ pc[d] # "idle"
          => /\ pc[d] = "failed"
             /\ result[d].kind = "config"
             /\ i[d] = 0
             /\ Len(log[d]) = 0
    /\ ~HasCredential /\ req.method = "POST" /\ (req.variant = "pool" \/ req.hasBody)
       => /\ res.status = 500
          /\ res.error = (IF req.variant = "pool" THEN NoKeysError ELSE NoApiKeyError)
          /\ res.calls = 0

C2_Witness ==
    /\ Len(keys) = 0
    /\ pc[1] = "failed"
    /\ result[1].kind = "config"

\* C3: with a non-empty pool no dispatch ends with the configuration error and
\* every started dispatch has made an upstream attempt; with a pool of one
\* credential the attempt uses that credential, also while it is cooling down.
C3_NonEmptyPoolAttempts ==
    /\ \A d \in Callers :
          Len(keys) > 0
          => /\ result[d].kind # "config"
             /\ pc[d] # "idle" => Len(log[d]) >= 1
             /\ pc[d] = "awaiting" /\ Len(keys) = 1 => key[d] = keys[1]
    /\ Len(RelayPool(env)) > 0 => res.error # NoKeysError

C3_Witness ==
    /\ Len(keys) = 1
    /\ pc[1] = "awaiting"
    /\ key[1] = keys[1]
    /\ Len(selLog) > 0
    /\ Last(selLog).cold
    /\ now <= CooldownUntil(cooldowns, keys[1])

\* The positions taken by selections a..b of the history.
Visited(a, b) == { selLog[n].pos : n \in a..b }

\* C4 as claimed: N consecutive selections made while every credential is
\* cooling down visit every one of the N credentials of the pool.
C4_ColdSelectionsVisitAll ==
    \A a \in 1..Len(selLog) :
        LET b == a + Len(keys) - 1 IN
        ( /\ Len(keys) >= 1
          /\ b <= Len(selLog)
          /\ \A n \in a..b : selLog[n].cold )
        => Visited(a, b) = 0..(Len(keys) - 1)

\* C4 as amended: a selection made while every credential is cooling down
\* does not fail; it takes the first credential of the pool, keys[0], every
\* time, and the attempt it starts uses that credential.
C4_ColdSelectionsTakeFirst ==
    /\ \A n \in 1..Len(selLog) : selLog[n].cold => selLog[n].pos = 0
    /\ \A d \in Callers :
          pc[d] = "awaiting" /\ Last(selLog).cold => key[d] = keys[1]

C4_Witness ==
    /\ Len(keys) >= 2
    /\ Len(selLog) >= 2
    /\ Last(selLog).cold
    /\ selLog[Len(selLog) - 1].cold

\* A step that makes a selection from a non-empty pool.
Selects == Len(selLog') = Len(selLog) + 1 /\ Len(keys) > 0

\* The step selected the credential under the cursor as an available one.
TakesCursorKey == Last(selLog').pos = currentIndex /\ ~Last(selLog').cold

\* C5: a credential marked at time T is excluded until T + D: a selection at
\* time t finds the credential under the cursor available exactly when
\* t >= T + D, the instant t = T + D included.
C5_AvailableFromExpiry ==
    [][ Selects =>
          ( TakesCursorKey
            <=> now >= CooldownUntil(cooldowns', keys[currentIndex + 1]) ) ]_vars

\* The attempt of caller d settles in this step with outcome out.
Settles(d, out) ==
    /\ pc[d] = "awaiting"
    /\ log[d][Len(log[d])].out = "pending"
    /\ log'[d][Len(log[d])].out = out

\* C6: the cooldown map changes only in a step where an attempt fails with a
\* rate-limit signature, and then only by the entry of that attempt's
\* credential; an attempt that succeeds, fails with the auth-invalid signature
\* or fails with any other error leaves the map as it was.
C6_OnlyRateLimitMarks ==
    [][ /\ cooldowns' # cooldowns
           => \E d \in Callers :
                 /\ Settles(d, "rl") \/ Settles(d, "rl+inv")
                 /\ DOMAIN cooldowns' = DOMAIN cooldowns \cup {key[d]}
                 /\ \A k \in DOMAIN cooldowns : k # key[d] => cooldowns'[k] = cooldowns[k]
        /\ \A d \in Callers :
              Settles(d, "ok") \/ Settles(d, "inv") \/ Settles(d, "other")
              => cooldowns' = cooldowns ]_vars

C6_Witness ==
    /\ Len(log[1]) >= 2
    /\ log[1][1].out = "inv"
    /\ cooldowns = << >>

\* C7: within one dispatch over a pool of at least two credentials, a
\* credential that failed with the auth-invalid signature is not selected
\* again by a later attempt of that dispatch.
C7_InvalidKeySkipped ==
    \A d \in Callers :
        Len(keys) >= 2
        => \A a, b \in 1..Len(log[d]) :
              a < b /\ log[d][a].out = "inv" => log[d][b].key # log[d][a].key

\* C8: when the first attempt of a dispatch fails with an error that has
\* neither the rate-limit nor the auth-invalid signature, the dispatch ends in
\* that step with that error, after this one attempt, no new selection, and
\* the cooldown map as it was.
C8_PermanentErrorIsTerminal ==
    [][ \A d \in Callers :
          Settles(d, "other") /\ Len(log[d]) = 1
          => /\ pc'[d] = "failed"
             /\ result'[d] = [kind |-> "error", key |-> "",
                              err |-> [msg |-> "other", at |-> 0]]
             /\ Len(log'[d]) = 1
             /\ selLog' = selLog
             /\ cooldowns' = cooldowns ]_vars

C8_Witness ==
    /\ pc[1] = "failed"
    /\ Len(log[1]) = 1
    /\ log[1][1].out = "other"
    /\ result[1].err.msg = "other"

\* Among the selections of the history, any N consecutive ones take N
\* distinct pool positions and selection n + N takes the position of selection n.
RoundRobinHistory ==
    \A a, b \in 1..Len(selLog) :
        /\ a < b /\ b - a < Len(keys) => selLog[a].pos # selLog[b].pos
        /\ b - a = Len(keys) => selLog[a].pos = selLog[b].pos

\* Two successive requests served by the relay.
RelayServesAgain == res.idx >= 0 /\ res'.idx >= 0 /\ res' # res

\* C9 as claimed: with no cooldown entries, N consecutive dispatches are
\* served by N distinct credentials in a stable order, by the KeyManager and
\* by the relay handler alike (for N >= 2 successive requests differ).
C9_RoundRobinEverywhere ==
    /\ [](DOMAIN cooldowns = {} /\ Len(keys) > 0 => RoundRobinHistory)
    /\ [][ req'.method = "POST" /\ req.method = "POST" /\ res.idx >= 0 /\ res'.idx >= 0
           /\ Len(RelayPool(env)) >= 2
           => res'.idx # res.idx ]_vars

\* C9 as amended: with no cooldown entries, any N consecutive selections of
\* the KeyManager (the attempts of executeWithRotation and connectLiveTeacher)
\* take N distinct credentials, in the same order in every cycle of N.
C9_KeyManagerRoundRobin ==
    DOMAIN cooldowns = {} /\ Len(keys) > 0
    => /\ RoundRobinHistory
       /\ \A n \in 1..Len(selLog) : ~selLog[n].cold

C9_Witness ==
    /\ DOMAIN cooldowns = {}
    /\ Len(keys) = 3
    /\ Len(selLog) = 4
    /\ pc[1] = "done"

\* The response reports an upstream rate-limit failure.
RelayRateLimited == res.calls >= 1 /\ (res.status = 429 \/ res.error = "rl")

\* C10: when every attempt is rate-limited, a dispatch over a pool of N >= 1
\* credentials ends with an error only after at least min(3, N) upstream
\* attempts, in executeWithRotation and in the relay handler.
C10_AtLeastMinAttempts ==
    /\ \A d \in Callers :
          ( /\ Len(keys) >= 1
            /\ pc[d] = "failed"
            /\ \A n \in 1..Len(log[d]) : log[d][n].out = "rl" )
          => Len(log[d]) >= Min(MinRetries, Len(keys))
    /\ RelayRateLimited => res.calls >= Min(MinRetries, Len(RelayPool(env)))

\* C11: a dispatch never makes more attempts than
\* min(ceiling, max(3, poolSize)), for a ceiling of at most 12.
C11_AttemptsUnderCeiling ==
    \A d \in Callers : Len(log[d]) <= Min(12, Max(MinRetries, getKeyCount))

\* Every attempt of caller d's dispatch failed with a retryable class and the
\* retry budget is used up.
Exhausted(d) ==
    /\ pc[d] = "failed"
    /\ Len(log[d]) > 0
    /\ Len(log[d]) = maxRetries[d]
    /\ \A n \in 1..Len(log[d]) : log[d][n].out \in {"rl", "inv", "rl+inv"}

\* C12: a dispatch whose attempts all fail with a retryable class until the
\* retry budget is exhausted ends with the failure of its last attempt as the
\* terminal error.
C12_LastFailureIsTerminal ==
    \A d \in Callers :
        Exhausted(d)
        => result[d] = [kind |-> "error", key |-> "",
                        err |-> [msg |-> Last(log[d]).out, at |-> Len(log[d]) - 1]]

C12_Witness ==
    /\ Exhausted(1)
    /\ log[1][1].out = "rl"
    /\ Last(log[1]).out = "inv"
    /\ result[1].err.msg = "inv"

\* C13: the relay answers with a rate-limit failure only when every credential
\* of the pool has been tried for the request.
C13_RateLimitOnlyWhenExhausted ==
    RelayRateLimited => res.calls >= Len(RelayPool(env))

\* C14 as claimed: a POST whose action is not a supported kind is answered
\* with status 400 and without an upstream call, whatever the credential pool
\* holds.
C14_UnsupportedActionRejected ==
    req.method = "POST" /\ req.hasBody /\ req.action # "generateContent"
    => res.status = 400 /\ res.calls = 0

\* C14 as amended: a POST with a body whose action is not a supported kind
\* never reaches upstream; it is answered with status 400 when the pool has a
\* credential, and with the status 500 of the missing-keys error when the pool
\* is empty.
C14_UnsupportedActionNeverCalls ==
    req.method = "POST" /\ req.hasBody /\ req.action # "generateContent"
    => /\ res.calls = 0
       /\ upstream = NoCall
       /\ IF HasCredential THEN res.status = 400 ELSE res.status = 500

C14_Witness ==
    /\ req.method = "POST"
    /\ req.hasBody
    /\ req.action = "embedContent"
    /\ HasCredential
    /\ res.status = 400

\* The upstream call of the request failed with a rate-limit failure.
UpstreamRateLimited ==
    /\ upstream # NoCall
    /\ ~upstream.ok
    /\ upstream.status = 429 \/ upstream.message = "rl"

\* C15 as claimed: every non-2xx response carries both error and
\* retrySuggested, and retrySuggested is true exactly when the failure is a
\* rate-limit failure.
C15_NormalizedErrorShape ==
    res.status >= 300
    => /\ res.error # ""
       /\ res.hasRetry
       /\ res.retrySuggested <=> UpstreamRateLimited

\* The upstream call of the request failed.
UpstreamFailed == upstream # NoCall /\ ~upstream.ok

\* The destructuring of a missing body threw before the handler answered.
HandlerThrew == res.error = "TypeError"

\* C15 as amended: every failure response a handler sends carries error;
\* retrySuggested is carried exactly by the responses of the pool handler to
\* a failed upstream call, and there it is true exactly when the status of
\* the failure is 429; the single-key handler never sends it.
C15_ErrorAlwaysRetryOnUpstreamFailure ==
    res.status >= 300 /\ ~HandlerThrew
    => /\ res.error # ""
       /\ res.hasRetry <=> (UpstreamFailed /\ req.variant = "pool")
       /\ res.hasRetry => (res.retrySuggested <=> upstream.status = 429)

C15_Witness ==
    /\ res.status = 429
    /\ res.hasRetry
    /\ res.retrySuggested
    /\ UpstreamFailed

\* C16 as claimed: a terminal upstream failure is mapped by class:
\* auth-invalid gives status 500 whatever upstream reported, a malformed
\* request 400, another permanent error the status upstream reported.
C16_StatusByFailureClass ==
    upstream # NoCall /\ ~upstream.ok
    => /\ upstream.message = "inv" => res.status = 500
       /\ upstream.message = "other" /\ upstream.status # 0
            => res.status = upstream.status

\* C16 as amended: a failed upstream call is answered with the status the
\* failure carries, whatever its class, and with 500 when it carries none.
C16_StatusPassedThrough ==
    UpstreamFailed
    => res.status = (IF upstream.status # 0 THEN upstream.status ELSE 500)

C16_Witness ==
    /\ UpstreamFailed
    /\ upstream.message = "inv"
    /\ upstream.status = 400
    /\ res.status = 400

\* The secret values an environment holds.
PoolSecrets(e) == { e[n] : n \in DOMAIN e } \ {""}

\* The environments that differ from e only in the values of the secrets.
SecretVariants(e) ==
    { f \in [DOMAIN e -> {""} \cup { SecretOf(n) : n \in DOMAIN e }] :
        \A n \in DOMAIN e : (f[n] = "") <=> (e[n] = "") }

\* The response to the last request, had the environment been e.
ResponseIn(e) ==
    IF req.variant = "pool"
    THEN handlerResponseIn(e, req.method, req.hasBody, req.action, res.idx, upstream)
    ELSE handlerSingleKeyResponseIn(e, req.method, req.hasBody, req.action, upstream)

ConnectHung ==
    /\ hub.isVoiceConnecting
    /\ \E s \in 1..MaxVoice : hub.run[s].socket = "hung"

\* The hub shows a degradation message and is back on the chat path.
FellBack ==
    /\ hub.liveError
    /\ hub.mode = "CHAT"
    /\ ~hub.isVoiceConnecting
    /\ ~hub.isVoiceActive

\* C18: a voice session whose connection hangs, so that it is not active
\* within the connect timeout, eventually ends with a degradation message
\* shown and the hub back in chat mode, neither connecting nor active, unless
\* the learner has left the connecting state first.
C18_HungConnectFallsBack == ConnectHung ~> (FellBack \/ ~hub.isVoiceConnecting)

\* C19: the session becomes active only from connecting: a session that was
\* stopped is not made active by a later onopen.
C19_ActiveOnlyFromConnecting ==
    [][ hub'.isVoiceActive /\ ~hub.isVoiceActive => hub.isVoiceConnecting ]_vars

\* C20: while the hub is neither connecting nor active, no audio context, no
\* microphone stream and no live connection made by a session is still open.
C20_ReleasedWhenClosed ==
    ~hub.isVoiceConnecting /\ ~hub.isVoiceActive
    => \A s \in 1..MaxVoice :
          /\ hub.run[s].inputCtx # "open"
          /\ hub.run[s].outputCtx # "open"
          /\ hub.run[s].stream # "open"
          /\ hub.run[s].socket \notin {"connecting", "open"}

\* C22: a mark overwrites the entry of its credential with the time of the
\* mark plus the cooldown time, also when another dispatch marked the same
\* credential before, and no entry of the map ever moves to an earlier time.
C22_LastMarkWins ==
    [][ \A d \in Callers :
          Settles(d, "rl") \/ Settles(d, "rl+inv")
          => /\ key[d] \in DOMAIN cooldowns'
             /\ cooldowns'[key[d]] = now + COOLDOWN_TIME
             /\ \A k \in DOMAIN cooldowns :
                   k \in DOMAIN cooldowns' /\ cooldowns'[k] >= cooldowns[k] ]_vars

\* Both callers were rate-limited on the same credential, and the entry is
\* the one written at a later instant than the start.
C22_Witness ==
    \E m \in 1..Len(log[1]), n \in 1..Len(log[2]) :
        /\ log[1][m].key = log[2][n].key
        /\ log[1][m].out = "rl" /\ log[2][n].out = "rl"
        /\ now > 1
        /\ cooldowns[log[1][m].key] = now + COOLDOWN_TIME

\* Caller d's dispatch made an attempt with credential k.
Attempted(d, k) == \E n \in 1..Len(log[d]) : log[d][n].key = k

\* C25: when some credential of the pool never fails and the others fail
\* only with the rate-limit or auth-invalid signature, no dispatch of
\* interleaved callers ends in failure without having attempted it.
C25_HealthyKeyServesAll ==
    \A d \in Callers :
        \A h \in 1..Len(keys) :
            ( /\ pc[d] = "failed"
              /\ \A c \in Callers : \A n \in 1..Len(log[c]) :
                    IF log[c][n].key = keys[h]
                    THEN log[c][n].out \in {"ok", "pending"}
                    ELSE log[c][n].out \in {"rl", "inv", "rl+inv", "pending"} )
            => Attempted(d, keys[h])

\* C24: no step adds, removes or reorders an entry of the pool, and
\* getKeyCount reports the same size after every step.
C24_PoolImmutable ==
    [][ keys' = keys /\ getKeyCount' = getKeyCount ]_vars

\* Dispatches, selections and cooldown marks have happened, a cooldown has
\* run out, and the pool is the one initPool built.
C24_Witness ==
    /\ Len(keys) >= 2
    /\ cooldowns # << >>
    /\ Len(selLog) >= 3
    /\ now > COOLDOWN_TIME + 1
    /\ keys = initPool(env, procApiKey)
    /\ getKeyCount = Len(initPool(env, procApiKey))

\* The names of the convention in discovery order, for the KeyManager and for
\* the relay handler.
NameOrder == <<ApiKeyName, BaseName>> \o NumberedName

RelayNameOrder == <<BaseName>> \o NumberedName

\* The positions of names whose variable is present and non-empty in e.
PresentAt(e, names) == { p \in 1..Len(names) : Lookup(e, names[p]) # "" }

\* pool holds exactly the present values of names, in the order of names.
IsPoolOf(pool, e, names) ==
    LET P == PresentAt(e, names) IN
    /\ Len(pool) = Cardinality(P)
    /\ \A p \in P : pool[Cardinality({ q \in P : q <= p })] = e[names[p]]

LiveSessions ==
    { s \in 1..MaxVoice : \/ hub.run[s].at \in {"mic", "connect"}
                          \/ hub.run[s].socket \in {"connecting", "open"} }

\* C27: at most one voice session of the hub is live at any time.
C27_AtMostOneLiveSession == Cardinality(LiveSessions) <= 1

\* C28: no stored sample of the Int16Array has the sign opposite to that of
\* the microphone sample it was converted from, and each lies in
\* [-32768, 32767], for every sample of [-1, 1].
C28_PcmKeepsSign ==
    \A k \in 1..Len(pcm.int16) :
        /\ pcm.int16[k] \in (0 - PcmScale)..(PcmScale - 1)
        /\ pcm.inputData[k] > 0 => pcm.int16[k] >= 0
        /\ pcm.inputData[k] < 0 => pcm.int16[k] <= 0

\* The sources of chunks c and d sound at the same time.
Overlap(c, d) ==
    /\ audio.chunk[c].state \in {"started", "stopped"}
    /\ audio.chunk[d].state \in {"started", "stopped"}
    /\ audio.chunk[c].from < audio.chunk[c].till
    /\ audio.chunk[d].from < audio.chunk[d].till
    /\ audio.chunk[c].from < audio.chunk[d].till
    /\ audio.chunk[d].from < audio.chunk[c].till

\* C21: when an interruption signal has been handled, no source that was
\* started before it still has audio to play and the playback position is
\* reset; and no chunk received before a handled signal is started after it.
C21_InterruptionDiscardsQueue ==
    [][ /\ audio'.interrupts > audio.interrupts
           => /\ audio'.nextStartTime = 0
              /\ \A c \in 1..MaxChunks :
                    audio'.chunk[c].state = "started"
                    => audio'.chunk[c].till <= audio'.currentTime
        /\ \A c \in 1..MaxChunks :
              audio.chunk[c].state = "decoding" /\ audio'.chunk[c].state = "started"
              => audio.chunk[c].turn = audio.interrupts ]_vars

\* C26: no two chunks sound at the same time: each chunk starts when the
\* chunks started before it have ended or have been stopped.
C26_NoOverlap ==
    \A c \in 1..MaxChunks, d \in 1..MaxChunks : c < d => ~Overlap(c, d)

\* The score that belongs to a count of mistakes that passes.
PassingScore(mistakes, score) ==
    \/ mistakes = 0 /\ score = 100
    \/ mistakes \in 1..2 /\ score = 90
    \/ mistakes \in 3..5 /\ score = 80

\* C29: onComplete is called only when the typed text equals the original
\* text, the countdown has not expired and at most 5 mistakes were counted;
\* it reports the typed text, the mistakes counted and the score that belongs
\* to them (100, 90 or 80); and only a retry lowers the count of mistakes.
C29_CompleteOnlyWhenPassed ==
    [][ /\ typing'.report # typing.report
           => /\ typing.typedText = typing.originalText
              /\ ~typing.isFailed
              /\ typing.timeLeft > 0
              /\ typing.mistakeCount <= 5
              /\ typing'.report.typed = typing.originalText
              /\ typing'.report.mistakes = typing.mistakeCount
              /\ PassingScore(typing.mistakeCount, typing'.report.score)
        /\ typing'.mistakeCount < typing.mistakeCount
           => typing'.lastOp = "retry" /\ typing'.mistakeCount = 0 ]_vars

\* After a retry, a text was typed with 5 mistakes and reported with score 80.
C29_Witness ==
    /\ typing.report.called
    /\ typing.report.mistakes = 5
    /\ typing.report.score = 80
    /\ typing.lastOp = "finish"
    /\ Len(typing.originalText) = MaxText
    /\ typing.timeLeft < MinTime

\* C30: the stored score of every lesson is the highest score reported for it.
C30_StoredIsBest == \A l \in Lessons : profile.stored[l] = profile.best[l]

====
